---------------------------- MODULE Spec2Model ----------------------------
(***************************************************************************)
(* Model of HN6_Bot_ADRES_BOOK_OOP.py: the contact manager's value types   *)
(* (Name, Phone), Record, AddressBook, the command handlers wrapped by     *)
(* input_error, parse_input and the command loop of main().                *)
(*                                                                         *)
(* A Python str is modelled as a sequence of characters; a character is a  *)
(* one-character TLA+ string.  The two non-ASCII characters of the model   *)
(* are written by their code points: "u0663" is ARABIC-INDIC DIGIT THREE   *)
(* and "u00b2" is SUPERSCRIPT TWO.  Python's str.isdigit() is True for     *)
(* both of them.                                                           *)
(***************************************************************************)
EXTENDS Integers, Sequences, FiniteSets, TLC

VARIABLES
    data,   \* AddressBook.data: the dict, as the sequence of its entries in insertion order
    call,   \* the last call made: [op, args], args a sequence of strings
    out,    \* the string the last call returned or printed (<<>> when there is none)
    exc,    \* the exception that escaped the last call (NoExc when it returned)
    pc      \* main(): "running" in the while loop, "done" after break, "crashed" when an exception escaped

vars == <<data, call, out, exc, pc>>

---------------------------------------------------------------------------
(* Bounds of the model *)

\* the longest phone list a direct Record.add_phone call is applied to
MaxPhones == 2

---------------------------------------------------------------------------
(* Python str operations *)

AsciiDigits == {"0","1","2","3","4","5","6","7","8","9"}

\* characters outside 0-9 for which str.isdigit() is True
OtherDigits == {"u0663", "u00b2"}

Whitespace == {" ", "\t"}

UpperChars == <<"A","B","C","D","E","F","G","H","I","J","K","L","M",
                "N","O","P","Q","R","S","T","U","V","W","X","Y","Z">>
LowerChars == <<"a","b","c","d","e","f","g","h","i","j","k","l","m",
                "n","o","p","q","r","s","t","u","v","w","x","y","z">>

\* str.isdigit(): non-empty and every character is a digit character
isdigit(s) == Len(s) > 0 /\ \A i \in 1..Len(s) : s[i] \in AsciiDigits \cup OtherDigits

LowerChar(c) ==
    IF \E i \in 1..Len(UpperChars) : UpperChars[i] = c
    THEN LowerChars[CHOOSE i \in 1..Len(UpperChars) : UpperChars[i] = c]
    ELSE c

\* str.lower()
lower(s) == [i \in 1..Len(s) |-> LowerChar(s[i])]

RECURSIVE lstrip(_)
lstrip(s) == IF s # <<>> /\ Head(s) \in Whitespace THEN lstrip(Tail(s)) ELSE s

RECURSIVE rstrip(_)
rstrip(s) ==
    IF s # <<>> /\ s[Len(s)] \in Whitespace THEN rstrip(SubSeq(s, 1, Len(s) - 1)) ELSE s

\* str.strip()
strip(s) == rstrip(lstrip(s))

\* str.split() with no separator: the maximal runs of non-whitespace characters
RECURSIVE SplitFrom(_, _, _)
SplitFrom(s, word, acc) ==
    IF s = <<>>
    THEN IF word = <<>> THEN acc ELSE Append(acc, word)
    ELSE IF Head(s) \in Whitespace
         THEN SplitFrom(Tail(s), <<>>, IF word = <<>> THEN acc ELSE Append(acc, word))
         ELSE SplitFrom(Tail(s), Append(word, Head(s)), acc)

split(s) == SplitFrom(s, <<>>, <<>>)

\* sep.join(parts)
RECURSIVE join(_, _)
join(sep, parts) ==
    IF parts = <<>> THEN <<>>
    ELSE IF Len(parts) = 1 THEN parts[1]
    ELSE parts[1] \o sep \o join(sep, Tail(parts))

\* sub in s
Contains(s, sub) ==
    \E i \in 0..(Len(s) - Len(sub)) : SubSeq(s, i + 1, i + Len(sub)) = sub

---------------------------------------------------------------------------
(* Exceptions *)

NoExc == [type |-> "none", msg |-> <<>>]

ValueError(m) == [type |-> "ValueError", msg |-> m]
KeyError(m)   == [type |-> "KeyError", msg |-> m]
IndexError(m) == [type |-> "IndexError", msg |-> m]

\* "Name cannot be empty"
MsgEmptyName == <<"N","a","m","e"," ","c","a","n","n","o","t"," ","b","e"," ","e","m","p","t","y">>
\* "Phone number must be 10 digits"
MsgInvalidPhone == <<"P","h","o","n","e"," ","n","u","m","b","e","r"," ","m","u","s","t"," ","b","e"," ","1","0"," ","d","i","g","i","t","s">>
\* "Phone number not found"
MsgPhoneNotFound == <<"P","h","o","n","e"," ","n","u","m","b","e","r"," ","n","o","t"," ","f","o","u","n","d">>
\* "Old phone number not found"
MsgOldPhoneNotFound == <<"O","l","d"," ","p","h","o","n","e"," ","n","u","m","b","e","r"," ","n","o","t"," ","f","o","u","n","d">>
\* "Record not found"
MsgRecordNotFound == <<"R","e","c","o","r","d"," ","n","o","t"," ","f","o","u","n","d">>

---------------------------------------------------------------------------
(* Name, Phone *)

\* the length Phone.validate_phone requires
PhoneLen == 10

\* Name.__init__: raises when `not value`
NameCreate(value) ==
    IF value = <<>> THEN [exc |-> ValueError(MsgEmptyName), val |-> <<>>]
    ELSE [exc |-> NoExc, val |-> value]

\* Phone.validate_phone
validate_phone(phone) == isdigit(phone) /\ Len(phone) = PhoneLen

\* Phone.__init__
PhoneCreate(value) ==
    IF ~validate_phone(value) THEN [exc |-> ValueError(MsgInvalidPhone), val |-> <<>>]
    ELSE [exc |-> NoExc, val |-> value]

---------------------------------------------------------------------------
(* Record: [name, phones]; every method returns [exc, rec], rec being the   *)
(* Record after the call (also when it raised)                             *)

NoRecord == [name |-> <<>>, phones |-> <<>>]

\* Record.__init__
RecordCreate(name) ==
    LET n == NameCreate(name) IN
    IF n.exc # NoExc THEN [exc |-> n.exc, rec |-> NoRecord]
    ELSE [exc |-> NoExc, rec |-> [name |-> n.val, phones |-> <<>>]]

\* Record.add_phone
add_phone(rec, phone) ==
    LET p == PhoneCreate(phone) IN
    IF p.exc # NoExc THEN [exc |-> p.exc, rec |-> rec]
    ELSE [exc |-> NoExc, rec |-> [rec EXCEPT !.phones = Append(@, p.val)]]

\* add_phone for each phone of a list in turn, up to the first that raises
RECURSIVE add_phones(_, _)
add_phones(rec, phones) ==
    IF phones = <<>> THEN [exc |-> NoExc, rec |-> rec]
    ELSE LET r == add_phone(rec, Head(phones)) IN
         IF r.exc # NoExc THEN r ELSE add_phones(r.rec, Tail(phones))

\* Record.find_phone: the index of the first phone whose value equals `phone`, 0 for None
find_phone(rec, phone) ==
    IF \E i \in 1..Len(rec.phones) : rec.phones[i] = phone
    THEN CHOOSE i \in 1..Len(rec.phones) :
            /\ rec.phones[i] = phone
            /\ \A j \in 1..(i - 1) : rec.phones[j] # phone
    ELSE 0

\* list.remove of the element at index i
RemoveAt(s, i) == SubSeq(s, 1, i - 1) \o SubSeq(s, i + 1, Len(s))

\* remove_phone that takes out the last phone equal to `phone` instead of the first
remove_phone_last(rec, phone) ==
    IF find_phone(rec, phone) # 0
    THEN [exc |-> NoExc,
          rec |-> [rec EXCEPT !.phones =
                    RemoveAt(@, CHOOSE i \in 1..Len(@) :
                                    @[i] = phone /\ \A j \in (i + 1)..Len(@) : @[j] # phone)]]
    ELSE [exc |-> ValueError(MsgPhoneNotFound), rec |-> rec]

\* remove_phone without its else branch: an absent phone is passed over in silence
remove_phone_silent(rec, phone) ==
    IF find_phone(rec, phone) # 0
    THEN [exc |-> NoExc, rec |-> [rec EXCEPT !.phones = RemoveAt(@, find_phone(rec, phone))]]
    ELSE [exc |-> NoExc, rec |-> rec]

\* Record.remove_phone
remove_phone(rec, phone) ==
    LET phone_obj == find_phone(rec, phone) IN
    IF phone_obj # 0
    THEN [exc |-> NoExc, rec |-> [rec EXCEPT !.phones = RemoveAt(@, phone_obj)]]
    ELSE [exc |-> ValueError(MsgPhoneNotFound), rec |-> rec]

\* edit_phone that validates the new phone before it removes the old one
edit_phone_atomic(rec, old_phone, new_phone) ==
    IF find_phone(rec, old_phone) = 0
    THEN [exc |-> ValueError(MsgOldPhoneNotFound), rec |-> rec]
    ELSE IF PhoneCreate(new_phone).exc # NoExc
    THEN [exc |-> PhoneCreate(new_phone).exc, rec |-> rec]
    ELSE add_phone(remove_phone(rec, old_phone).rec, new_phone)

\* Record.edit_phone
edit_phone(rec, old_phone, new_phone) ==
    LET old_phone_obj == find_phone(rec, old_phone) IN
    IF old_phone_obj # 0
    THEN LET removed == remove_phone(rec, old_phone) IN
         IF removed.exc # NoExc THEN removed
         ELSE add_phone(removed.rec, new_phone)
    ELSE [exc |-> ValueError(MsgOldPhoneNotFound), rec |-> rec]

\* "Contact name: "
TxtContactName == <<"C","o","n","t","a","c","t"," ","n","a","m","e",":"," ">>
\* ", phones: "
TxtPhones == <<","," ","p","h","o","n","e","s",":"," ">>

\* Record.__str__
RecordStr(rec) == TxtContactName \o rec.name \o TxtPhones \o join(<<";"," ">>, rec.phones)

---------------------------------------------------------------------------
(* AddressBook: data is a sequence of entries [key, rec] in insertion order *)

Keys(d) == {d[i].key : i \in 1..Len(d)}

IndexOf(d, key) == CHOOSE i \in 1..Len(d) : d[i].key = key

\* add_record that appends an entry without looking for the key
add_record_append(d, record) == Append(d, [key |-> record.name, rec |-> record])

\* add_record that keeps the Record already stored under the name (dict.setdefault)
add_record_keep(d, record) ==
    IF record.name \in Keys(d) THEN d
    ELSE Append(d, [key |-> record.name, rec |-> record])

\* AddressBook.add_record: dict item assignment (an existing key keeps its position)
add_record(d, record) ==
    IF record.name \in Keys(d)
    THEN [d EXCEPT ![IndexOf(d, record.name)] = [key |-> record.name, rec |-> record]]
    ELSE Append(d, [key |-> record.name, rec |-> record])

\* name in self.data
Has(d, name) == name \in Keys(d)

\* AddressBook.find, when name is a key (None otherwise: test Has first)
find(d, name) == d[IndexOf(d, name)].rec

\* delete that removes the oldest entry instead of the named one
delete_oldest(d, name) ==
    IF Has(d, name)
    THEN [exc |-> NoExc, data |-> Tail(d)]
    ELSE [exc |-> ValueError(MsgRecordNotFound), data |-> d]

\* AddressBook.delete: returns [exc, data]
delete(d, name) ==
    IF Has(d, name)
    THEN [exc |-> NoExc, data |-> RemoveAt(d, IndexOf(d, name))]
    ELSE [exc |-> ValueError(MsgRecordNotFound), data |-> d]

\* AddressBook.__str__
RECURSIVE RecordStrs(_)
RecordStrs(d) == IF d = <<>> THEN <<>> ELSE <<RecordStr(Head(d).rec)>> \o RecordStrs(Tail(d))

BookStr(d) == join(<<"\n">>, RecordStrs(d))

\* a method call on the Record stored under `key` mutates it in place
StoreRec(d, key, rec) == [d EXCEPT ![IndexOf(d, key)].rec = rec]

---------------------------------------------------------------------------
(* input_error and the command handlers.  A handler's body returns         *)
(* [exc, ret, data]: the exception it raised (NoExc when it returned), the  *)
(* string it returned, and the directory after the call.                   *)

\* "Error: Contact not found."
MsgErrContactNotFound == <<"E","r","r","o","r",":"," ","C","o","n","t","a","c","t"," ","n","o","t"," ","f","o","u","n","d",".">>
\* "Error: "
MsgErrPrefix == <<"E","r","r","o","r",":"," ">>
\* "Error: Invalid command format."
MsgErrInvalidFormat == <<"E","r","r","o","r",":"," ","I","n","v","a","l","i","d"," ","c","o","m","m","a","n","d"," ","f","o","r","m","a","t",".">>
\* "Command requires exactly 2 arguments (name and phone)."
MsgAddArgs == <<"C","o","m","m","a","n","d"," ","r","e","q","u","i","r","e","s"," ","e","x","a","c","t","l","y"," ","2"," ","a","r","g","u","m","e","n","t","s"," ","(","n","a","m","e"," ","a","n","d"," ","p","h","o","n","e",")",".">>
\* "Contact already exists."
MsgAlreadyExists == <<"C","o","n","t","a","c","t"," ","a","l","r","e","a","d","y"," ","e","x","i","s","t","s",".">>
\* "Contact added."
MsgAdded == <<"C","o","n","t","a","c","t"," ","a","d","d","e","d",".">>
\* "Command requires exactly 2 arguments (name and new phone)."
MsgChangeArgs == <<"C","o","m","m","a","n","d"," ","r","e","q","u","i","r","e","s"," ","e","x","a","c","t","l","y"," ","2"," ","a","r","g","u","m","e","n","t","s"," ","(","n","a","m","e"," ","a","n","d"," ","n","e","w"," ","p","h","o","n","e",")",".">>
\* "Contact updated."
MsgUpdated == <<"C","o","n","t","a","c","t"," ","u","p","d","a","t","e","d",".">>
\* "Contact not found."
MsgContactNotFound == <<"C","o","n","t","a","c","t"," ","n","o","t"," ","f","o","u","n","d",".">>
\* "Command requires exactly 1 argument (name)."
MsgPhoneArgs == <<"C","o","m","m","a","n","d"," ","r","e","q","u","i","r","e","s"," ","e","x","a","c","t","l","y"," ","1"," ","a","r","g","u","m","e","n","t"," ","(","n","a","m","e",")",".">>
\* "No contacts found."
MsgNoContacts == <<"N","o"," ","c","o","n","t","a","c","t","s"," ","f","o","u","n","d",".">>
\* "list index out of range"
MsgListIndex == <<"l","i","s","t"," ","i","n","d","e","x"," ","o","u","t"," ","o","f"," ","r","a","n","g","e">>

\* input_error.inner: the three except clauses; any other exception propagates
input_error(r) ==
    IF r.exc.type = "KeyError"
    THEN [exc |-> NoExc, ret |-> MsgErrContactNotFound, data |-> r.data]
    ELSE IF r.exc.type = "ValueError"
    THEN [exc |-> NoExc, ret |-> MsgErrPrefix \o r.exc.msg, data |-> r.data]
    ELSE IF r.exc.type = "IndexError"
    THEN [exc |-> NoExc, ret |-> MsgErrInvalidFormat, data |-> r.data]
    ELSE r

Raise(e, d) == [exc |-> e, ret |-> <<>>, data |-> d]
Return(s, d) == [exc |-> NoExc, ret |-> s, data |-> d]

\* add_contact that builds the Record and its Phone before it looks the name up
add_contact_build_first(args, contacts) ==
    IF Len(args) # 2 THEN Raise(ValueError(MsgAddArgs), contacts)
    ELSE LET record == RecordCreate(args[1]) IN
         IF record.exc # NoExc THEN Raise(record.exc, contacts)
         ELSE LET added == add_phone(record.rec, args[2]) IN
              IF added.exc # NoExc THEN Raise(added.exc, contacts)
              ELSE IF Has(contacts, args[1])
              THEN Raise(ValueError(MsgAlreadyExists), contacts)
              ELSE Return(MsgAdded, add_record(contacts, added.rec))

\* add_contact that stores the new Record before it adds the phone to it
add_contact_store_first(args, contacts) ==
    IF Len(args) # 2 THEN Raise(ValueError(MsgAddArgs), contacts)
    ELSE IF Has(contacts, args[1]) THEN Raise(ValueError(MsgAlreadyExists), contacts)
    ELSE LET record == RecordCreate(args[1]) IN
         IF record.exc # NoExc THEN Raise(record.exc, contacts)
         ELSE LET added == add_phone(record.rec, args[2]) IN
              IF added.exc # NoExc THEN Raise(added.exc, add_record(contacts, record.rec))
              ELSE Return(MsgAdded, add_record(contacts, added.rec))

\* the body of add_contact
add_contact_body(args, contacts) ==
    IF Len(args) # 2 THEN Raise(ValueError(MsgAddArgs), contacts)
    ELSE LET name == args[1]
             phone == args[2]
         IN IF Has(contacts, name) THEN Raise(ValueError(MsgAlreadyExists), contacts)
            ELSE LET record == RecordCreate(name) IN
                 IF record.exc # NoExc THEN Raise(record.exc, contacts)
                 ELSE LET added == add_phone(record.rec, phone) IN
                      IF added.exc # NoExc THEN Raise(added.exc, contacts)
                      ELSE Return(MsgAdded, add_record(contacts, added.rec))

add_contact(args, contacts) == input_error(add_contact_body(args, contacts))

\* change_contact that adds the new phone and leaves the old one in place
change_contact_keep_old(args, contacts) ==
    IF Len(args) # 2 THEN Raise(ValueError(MsgChangeArgs), contacts)
    ELSE IF ~Has(contacts, args[1]) THEN Raise(KeyError(MsgContactNotFound), contacts)
    ELSE IF find(contacts, args[1]).phones = <<>> THEN Raise(IndexError(MsgListIndex), contacts)
    ELSE LET added == add_phone(find(contacts, args[1]), args[2]) IN
         IF added.exc # NoExc THEN Raise(added.exc, contacts)
         ELSE Return(MsgUpdated, StoreRec(contacts, args[1], added.rec))

\* change_contact that creates the contact when the name is not found
change_contact_upsert(args, contacts) ==
    IF Len(args) # 2 THEN Raise(ValueError(MsgChangeArgs), contacts)
    ELSE IF ~Has(contacts, args[1]) THEN add_contact_body(args, contacts)
    ELSE IF find(contacts, args[1]).phones = <<>> THEN Raise(IndexError(MsgListIndex), contacts)
    ELSE LET edited == edit_phone(find(contacts, args[1]), find(contacts, args[1]).phones[1], args[2])
         IN IF edited.exc # NoExc
            THEN Raise(edited.exc, StoreRec(contacts, args[1], edited.rec))
            ELSE Return(MsgUpdated, StoreRec(contacts, args[1], edited.rec))

\* change_contact that gives a contact without phones the new phone as its first one
change_contact_fill_empty(args, contacts) ==
    IF Len(args) # 2 THEN Raise(ValueError(MsgChangeArgs), contacts)
    ELSE IF ~Has(contacts, args[1]) THEN Raise(KeyError(MsgContactNotFound), contacts)
    ELSE LET record == find(contacts, args[1])
             edited == IF record.phones = <<>> THEN add_phone(record, args[2])
                       ELSE edit_phone(record, record.phones[1], args[2])
         IN IF edited.exc # NoExc
            THEN Raise(edited.exc, StoreRec(contacts, args[1], edited.rec))
            ELSE Return(MsgUpdated, StoreRec(contacts, args[1], edited.rec))

\* the body of change_contact; edit_phone mutates the stored Record, also when it raises
change_contact_body(args, contacts) ==
    IF Len(args) # 2 THEN Raise(ValueError(MsgChangeArgs), contacts)
    ELSE LET name == args[1]
             new_phone == args[2]
         IN IF Has(contacts, name)
            THEN LET record == find(contacts, name) IN
                 IF record.phones = <<>> THEN Raise(IndexError(MsgListIndex), contacts)
                 ELSE LET old_phone == record.phones[1]
                          edited == edit_phone(record, old_phone, new_phone)
                          after == StoreRec(contacts, name, edited.rec)
                      IN IF edited.exc # NoExc THEN Raise(edited.exc, after)
                         ELSE Return(MsgUpdated, after)
            ELSE Raise(KeyError(MsgContactNotFound), contacts)

change_contact(args, contacts) == input_error(change_contact_body(args, contacts))

\* the body of show_phone
show_phone_body(args, contacts) ==
    IF Len(args) # 1 THEN Raise(IndexError(MsgPhoneArgs), contacts)
    ELSE LET name == args[1] IN
         IF Has(contacts, name)
         THEN Return(name \o <<":"," ">> \o join(<<","," ">>, find(contacts, name).phones), contacts)
         ELSE Raise(KeyError(MsgContactNotFound), contacts)

show_phone(args, contacts) == input_error(show_phone_body(args, contacts))

\* the body of show_all
show_all_body(contacts) ==
    IF contacts # <<>> THEN Return(BookStr(contacts), contacts)
    ELSE Return(MsgNoContacts, contacts)

show_all(contacts) == input_error(show_all_body(contacts))

---------------------------------------------------------------------------
(* parse_input and main *)

\* "not enough values to unpack (expected at least 1, got 0)"
MsgUnpack == <<"n","o","t"," ","e","n","o","u","g","h"," ","v","a","l","u","e","s"," ","t","o"," ","u","n","p","a","c","k"," ","(","e","x","p","e","c","t","e","d"," ","a","t"," ","l","e","a","s","t"," ","1",","," ","g","o","t"," ","0",")">>

\* parse_input: cmd, *args = user_input.strip().lower().split()
parse_input(user_input) ==
    LET words == split(lower(strip(user_input))) IN
    IF words = <<>> THEN [exc |-> ValueError(MsgUnpack), cmd |-> <<>>, args |-> <<>>]
    ELSE [exc |-> NoExc, cmd |-> Head(words), args |-> Tail(words)]

CmdClose  == <<"c","l","o","s","e">>
CmdExit   == <<"e","x","i","t">>
CmdHello  == <<"h","e","l","l","o">>
CmdAdd    == <<"a","d","d">>
CmdChange == <<"c","h","a","n","g","e">>
CmdPhone  == <<"p","h","o","n","e">>
CmdAll    == <<"a","l","l">>
CmdHelp   == <<"h","e","l","p">>

\* "Welcome to the assistant bot!"
MsgWelcome == <<"W","e","l","c","o","m","e"," ","t","o"," ","t","h","e"," ","a","s","s","i","s","t","a","n","t"," ","b","o","t","!">>
\* "Good bye!"
MsgGoodBye == <<"G","o","o","d"," ","b","y","e","!">>
\* "How can I help you?"
MsgHello == <<"H","o","w"," ","c","a","n"," ","I"," ","h","e","l","p"," ","y","o","u","?">>
\* "Available commands: hello, add, change, phone, all, close, exit"
MsgHelp == <<"A","v","a","i","l","a","b","l","e"," ","c","o","m","m","a","n","d","s",":"," ","h","e","l","l","o",","," ","a","d","d",","," ","c","h","a","n","g","e",","," ","p","h","o","n","e",","," ","a","l","l",","," ","c","l","o","s","e",","," ","e","x","i","t">>
\* "Invalid command. Type 'help' to see the list of available commands."
MsgInvalidCommand == <<"I","n","v","a","l","i","d"," ","c","o","m","m","a","n","d","."," ","T","y","p","e"," ","'","h","e","l","p","'"," ","t","o"," ","s","e","e"," ","t","h","e"," ","l","i","s","t"," ","o","f"," ","a","v","a","i","l","a","b","l","e"," ","c","o","m","m","a","n","d","s",".">>

\* the if / elif chain with an else branch that leaves the loop
dispatch_else_breaks(command, args, contacts) ==
    IF command \in {CmdClose, CmdExit}
    THEN [exc |-> NoExc, out |-> MsgGoodBye, data |-> contacts, pc |-> "done"]
    ELSE IF command = CmdHello
    THEN [exc |-> NoExc, out |-> MsgHello, data |-> contacts, pc |-> "running"]
    ELSE IF command = CmdAdd
    THEN [exc |-> NoExc, out |-> add_contact(args, contacts).ret,
          data |-> add_contact(args, contacts).data, pc |-> "running"]
    ELSE IF command = CmdChange
    THEN [exc |-> NoExc, out |-> change_contact(args, contacts).ret,
          data |-> change_contact(args, contacts).data, pc |-> "running"]
    ELSE IF command = CmdPhone
    THEN [exc |-> NoExc, out |-> show_phone(args, contacts).ret, data |-> contacts, pc |-> "running"]
    ELSE IF command = CmdAll
    THEN [exc |-> NoExc, out |-> show_all(contacts).ret, data |-> contacts, pc |-> "running"]
    ELSE IF command = CmdHelp
    THEN [exc |-> NoExc, out |-> MsgHelp, data |-> contacts, pc |-> "running"]
    ELSE [exc |-> NoExc, out |-> MsgInvalidCommand, data |-> contacts, pc |-> "done"]

\* the if / elif chain of the loop body: [exc, out, data, pc] after it
dispatch(command, args, contacts) ==
    LET Printed(r) == [exc |-> r.exc, out |-> r.ret, data |-> r.data,
                       pc |-> IF r.exc = NoExc THEN "running" ELSE "crashed"]
        Static(s) == [exc |-> NoExc, out |-> s, data |-> contacts, pc |-> "running"]
    IN IF command \in {CmdClose, CmdExit}
       THEN [exc |-> NoExc, out |-> MsgGoodBye, data |-> contacts, pc |-> "done"]
       ELSE IF command = CmdHello THEN Static(MsgHello)
       ELSE IF command = CmdAdd THEN Printed(add_contact(args, contacts))
       ELSE IF command = CmdChange THEN Printed(change_contact(args, contacts))
       ELSE IF command = CmdPhone THEN Printed(show_phone(args, contacts))
       ELSE IF command = CmdAll THEN Printed(show_all(contacts))
       ELSE IF command = CmdHelp THEN Static(MsgHelp)
       ELSE Static(MsgInvalidCommand)

\* an exception that leaves main() ends the program; nothing is printed by the loop
Crash(e, contacts) == [exc |-> e, out |-> <<>>, data |-> contacts, pc |-> "crashed"]

\* the loop body after parse_input returned or raised
LoopBody(parsed, contacts) ==
    IF parsed.exc # NoExc THEN Crash(parsed.exc, contacts)
    ELSE dispatch(parsed.cmd, parsed.args, contacts)

\* one iteration of the while loop of main() on the line read by input()
main_iteration(user_input, contacts) == LoopBody(parse_input(user_input), contacts)

---------------------------------------------------------------------------
(* Inputs *)

NameJo   == <<"j","o">>
NameJoUp == <<"J","o">>
NameAl   == <<"a","l">>

\* "1234567890"
P1 == <<"1","2","3","4","5","6","7","8","9","0">>
\* "1112223333"
P2 == <<"1","1","1","2","2","2","3","3","3","3">>
\* ten ARABIC-INDIC DIGIT THREE characters
PU == <<"u0663","u0663","u0663","u0663","u0663","u0663","u0663","u0663","u0663","u0663">>
\* "12345-7890"
PSep == <<"1","2","3","4","5","-","7","8","9","0">>
\* "123"
PShort == <<"1","2","3">>
\* "12345678901"
PLong == <<"1","2","3","4","5","6","7","8","9","0","1">>
\* "123456789" followed by SUPERSCRIPT TWO
PSup == <<"1","2","3","4","5","6","7","8","9","u00b2">>
\* "abcdefghij"
PAlpha == <<"a","b","c","d","e","f","g","h","i","j">>

\* the raw strings Phone is constructed from
PhoneInputs == {P1, P2, PU, PSep, PShort, PLong, PSup, PAlpha, <<>>}

\* the phone arguments of direct Record calls
ApiPhones == {P1, P2, PSep}

\* the names of direct Record / AddressBook calls
ApiNames == {NameJo, NameJoUp, <<>>}

\* the argument lists of direct calls of the command handlers
ArgLists ==
    {<<>>, <<NameJo, P1, P2>>}
    \cup {<<n>> : n \in ApiNames}
    \cup {<<n, p>> : n \in ApiNames, p \in ApiPhones}

\* the phone lists a Record is given before a direct add_record call
ApiPhoneLists == {<<>>, <<P1, P1>>, <<PU>>, <<P2, PSep>>}

\* the words typed after the command word
CmdNames  == {NameJo, NameJoUp, NameAl}
CmdPhones == {P1, P2, PSep}

Line1(w) == w
Line2(w, a) == w \o <<" ">> \o a
Line3(w, a, b) == w \o <<" ">> \o a \o <<" ">> \o b

\* the lines input() returns
Lines ==
    {<<>>, <<" ">>, <<"\t"," ">>}
    \cup {Line1(w) : w \in {CmdClose, CmdExit, CmdHello, CmdAll, CmdHelp, CmdAdd,
                            CmdPhone, CmdChange, <<"x","y","z">>, <<"H","e","l","p">>}}
    \cup {Line2(w, n) : w \in {CmdAdd, CmdChange, CmdPhone}, n \in CmdNames}
    \cup {Line3(w, n, p) : w \in {CmdAdd, CmdChange}, n \in CmdNames, p \in CmdPhones}
    \cup {<<" "," ">> \o Line3(<<"A","D","D">>, NameAl, P1) \o <<" ">>,
          Line3(CmdAdd, NameJo, <<" ">> \o P2),
          Line3(CmdPhone, NameJo, NameAl)}

---------------------------------------------------------------------------
(* The state machine *)

Call(op, args) == [op |-> op, args |-> args]

\* contacts = AddressBook()
Init ==
    /\ data = <<>>
    /\ call = Call("AddressBook", <<>>)
    /\ out = <<>>
    /\ exc = NoExc
    /\ pc = "running"

\* r = Record(name); then r.add_phone(p) for each p of phones; then
\* contacts.add_record(r).  The first exception ends the sequence.
ApiAddRecord(name, phones) ==
    /\ call' = Call("add_record", <<name>> \o phones)
    /\ \E created \in {RecordCreate(name)} :
       \E filled \in {IF created.exc # NoExc THEN created
                      ELSE add_phones(created.rec, phones)} :
        /\ data' = IF filled.exc # NoExc THEN data ELSE add_record(data, filled.rec)
        /\ exc' = filled.exc
    /\ out' = <<>>
    /\ UNCHANGED pc

\* contacts.delete(name)
ApiDelete(name) ==
    /\ call' = Call("delete", <<name>>)
    /\ \E r \in {delete(data, name)} :
        /\ data' = r.data
        /\ exc' = r.exc
    /\ out' = <<>>
    /\ UNCHANGED pc

\* contacts.find(name).add_phone(phone), name a key
ApiAddPhone(name, phone) ==
    /\ Has(data, name)
    /\ Len(find(data, name).phones) < MaxPhones
    /\ call' = Call("add_phone", <<name, phone>>)
    /\ \E r \in {add_phone(find(data, name), phone)} :
        /\ data' = StoreRec(data, name, r.rec)
        /\ exc' = r.exc
    /\ out' = <<>>
    /\ UNCHANGED pc

\* contacts.find(name).remove_phone(phone), name a key
ApiRemovePhone(name, phone) ==
    /\ Has(data, name)
    /\ call' = Call("remove_phone", <<name, phone>>)
    /\ \E r \in {remove_phone(find(data, name), phone)} :
        /\ data' = StoreRec(data, name, r.rec)
        /\ exc' = r.exc
    /\ out' = <<>>
    /\ UNCHANGED pc

\* contacts.find(name).edit_phone(old_phone, new_phone), name a key
ApiEditPhone(name, old_phone, new_phone) ==
    /\ Has(data, name)
    /\ call' = Call("edit_phone", <<name, old_phone, new_phone>>)
    /\ \E r \in {edit_phone(find(data, name), old_phone, new_phone)} :
        /\ data' = StoreRec(data, name, r.rec)
        /\ exc' = r.exc
    /\ out' = <<>>
    /\ UNCHANGED pc

\* Phone(raw)
ApiPhone(raw) ==
    /\ call' = Call("Phone", <<raw>>)
    /\ exc' = PhoneCreate(raw).exc
    /\ out' = <<>>
    /\ UNCHANGED <<data, pc>>

\* a direct call of a decorated handler on the directory
Handler(op, r) ==
    /\ data' = r.data
    /\ out' = r.ret
    /\ exc' = r.exc
    /\ UNCHANGED pc

\* add_contact(args, contacts)
ApiAddContact(args) ==
    /\ call' = Call("add_contact", args)
    /\ \E r \in {add_contact(args, data)} : Handler("add_contact", r)

\* change_contact(args, contacts)
ApiChangeContact(args) ==
    /\ call' = Call("change_contact", args)
    /\ \E r \in {change_contact(args, data)} : Handler("change_contact", r)

\* show_phone(args, contacts)
ApiShowPhone(args) ==
    /\ call' = Call("show_phone", args)
    /\ \E r \in {show_phone(args, data)} : Handler("show_phone", r)

\* show_all(contacts)
ApiShowAll ==
    /\ call' = Call("show_all", <<>>)
    /\ \E r \in {show_all(data)} : Handler("show_all", r)

Next ==
    \/ \E name \in ApiNames, phones \in ApiPhoneLists : ApiAddRecord(name, phones)
    \/ \E name \in ApiNames : ApiDelete(name)
    \/ \E name \in ApiNames, phone \in ApiPhones : ApiAddPhone(name, phone)
    \/ \E name \in ApiNames, phone \in ApiPhones : ApiRemovePhone(name, phone)
    \/ \E name \in ApiNames, old_phone \in ApiPhones, new_phone \in ApiPhones :
            ApiEditPhone(name, old_phone, new_phone)
    \/ \E raw \in PhoneInputs : ApiPhone(raw)
    \/ \E args \in ArgLists : ApiAddContact(args)
    \/ \E args \in ArgLists : ApiChangeContact(args)
    \/ \E args \in ArgLists : ApiShowPhone(args)
    \/ ApiShowAll

\* the library: the methods of Record and AddressBook and the command handlers,
\* called on one AddressBook
Spec == Init /\ [][Next]_vars

\* main(): contacts = AddressBook(); the welcome line is printed
MainInit ==
    /\ data = <<>>
    /\ call = Call("main", <<>>)
    /\ out = MsgWelcome
    /\ exc = NoExc
    /\ pc = "running"

\* user_input = input(...) and the iteration of the loop on it
MainStep(user_input) ==
    /\ pc = "running"
    /\ call' = Call("input", <<user_input>>)
    /\ \E r \in {main_iteration(user_input, data)} :
        /\ data' = r.data
        /\ out' = r.out
        /\ exc' = r.exc
        /\ pc' = r.pc

MainNext == \E user_input \in Lines : MainStep(user_input)

\* the program as the user runs it: the command loop alone
MainSpec == MainInit /\ [][MainNext]_vars

\* the phone lists the one Record of RecordSpec is rebuilt with
RecordPhoneLists == {<<>>, <<P1, P2, P1>>}

\* r = Record("jo") stored in a directory, built again or driven through
\* add_phone, remove_phone and edit_phone
RecordNext ==
    \/ \E phones \in RecordPhoneLists : ApiAddRecord(NameJo, phones)
    \/ \E phone \in ApiPhones : ApiAddPhone(NameJo, phone)
    \/ \E phone \in ApiPhones : ApiRemovePhone(NameJo, phone)
    \/ \E old_phone \in ApiPhones, new_phone \in ApiPhones :
            ApiEditPhone(NameJo, old_phone, new_phone)

\* one Record and the methods that change its phone list
RecordSpec == Init /\ [][RecordNext]_vars

---------------------------------------------------------------------------
(* Notions the properties are stated in *)

\* "already exists"
TxtAlreadyExists == <<"a","l","r","e","a","d","y"," ","e","x","i","s","t","s">>

\* the Records stored under key k (empty when k is no key)
Stored(d, k) == {d[i].rec : i \in {j \in 1..Len(d) : d[j].key = k}}

\* the phone list of the Record stored under k, k a key
PhonesOf(d, k) == (CHOOSE r \in Stored(d, k) : TRUE).phones

Occurs(ps, x) == \E i \in 1..Len(ps) : ps[i] = x

\* ps with its first element equal to x taken out, x occurring in ps
WithoutFirst(ps, x) ==
    LET i == CHOOSE k \in 1..Len(ps) : ps[k] = x /\ \A j \in 1..(k - 1) : ps[j] # x
    IN [k \in 1..(Len(ps) - 1) |-> IF k < i THEN ps[k] ELSE ps[k + 1]]

\* the command word of a typed line that is not blank
CommandWord(line) == lower(Head(split(line)))

\* the command words main() knows
KnownWords == {CmdClose, CmdExit, CmdHello, CmdAdd, CmdChange, CmdPhone, CmdAll, CmdHelp}

\* exactly 10 characters, each one of 0-9
TenDecimalDigits(s) == Len(s) = 10 /\ \A i \in 1..Len(s) : s[i] \in AsciiDigits

---------------------------------------------------------------------------
(* Properties *)

\* C1: in every state reached by add_record / delete calls and the commands
\* add, change, phone, all, every entry's key equals its Record's name and no
\* two entries have the same key.
C1_KeyIsName ==
    \A i \in 1..Len(data) :
        /\ data[i].key = data[i].rec.name
        /\ \A j \in 1..Len(data) : data[i].key = data[j].key => i = j

\* C1 witness: two entries, the second one just added by the add command
C1_Witness ==
    /\ Len(data) = 2
    /\ call.op = "add_contact"
    /\ out = MsgAdded

\* C2: add on a name that is already a key returns a message containing
\* "already exists", whatever the phone argument is, and leaves the directory
\* as it was.
C2_AddExisting ==
    [][(call'.op = "add_contact" /\ Len(call'.args) = 2 /\ Stored(data, call'.args[1]) # {})
        => (/\ Contains(out', TxtAlreadyExists)
            /\ exc' = NoExc
            /\ data' = data)]_vars

\* C2 witness: add was called with a name that is a key and a phone that Phone rejects
C2_Witness ==
    /\ call.op = "add_contact"
    /\ Len(call.args) = 2
    /\ call.args[2] = PSep
    /\ Contains(out, TxtAlreadyExists)
    /\ Stored(data, call.args[1]) # {}

\* C3: edit_phone(old, new) with old present and new failing Phone's validation
\* raises the invalid-phone error after the first occurrence of old was removed
\* (the list is one shorter, new is not added); with old absent it raises the
\* not-found error and the list is unchanged.
C3_EditNonAtomic ==
    [][(call'.op = "edit_phone")
        => LET name == call'.args[1]
               old == call'.args[2]
               new == call'.args[3]
               before == PhonesOf(data, name)
               after == PhonesOf(data', name)
           IN /\ (Occurs(before, old) /\ PhoneCreate(new).exc # NoExc)
                    => /\ exc' = ValueError(MsgInvalidPhone)
                       /\ after = WithoutFirst(before, old)
                       /\ Len(after) = Len(before) - 1
              /\ ~Occurs(before, old)
                    => /\ exc' = ValueError(MsgOldPhoneNotFound)
                       /\ after = before]_vars

\* C3 witness: edit_phone raised the invalid-phone error and a second copy of
\* old is still in the list
C3_Witness ==
    /\ call.op = "edit_phone"
    /\ exc = ValueError(MsgInvalidPhone)
    /\ Occurs(PhonesOf(data, call.args[1]), call.args[2])

\* C4: no input line makes an error escape main(): after every iteration
\* the loop is at the next prompt or has ended normally on close / exit.
C4_NoCrash == pc \in {"running", "done"} /\ exc = NoExc

\* C5: the name argument reaches the core as typed: after a successful
\* `add name phone` the typed name is a key of the directory.
C5_NameAsTyped ==
    \A n \in CmdNames, p \in CmdPhones :
        (call = Call("input", <<Line3(CmdAdd, n, p)>>) /\ out = MsgAdded)
            => Stored(data, n) # {}

\* C6: Phone(raw) succeeds exactly when raw is 10 characters, each one of
\* 0-9, and raises the invalid-phone error otherwise.
C6_PhoneIffTenDigits ==
    call.op = "Phone"
        => /\ (exc = NoExc) <=> TenDecimalDigits(call.args[1])
           /\ exc # NoExc => exc = ValueError(MsgInvalidPhone)

\* C7: an add that does not answer "Contact added." leaves the directory as
\* it was, so a new name with a phone that fails validation is not inserted;
\* an add of a new name with a phone that passes it answers "Contact added."
\* and stores the name with that one phone.
C7_FailedAddNoEffect ==
    [][(call'.op = "add_contact")
        => /\ out' # MsgAdded => data' = data
           /\ (/\ Len(call'.args) = 2
               /\ call'.args[1] # <<>>
               /\ Stored(data, call'.args[1]) = {}
               /\ PhoneCreate(call'.args[2]).exc = NoExc)
                => /\ out' = MsgAdded
                   /\ Stored(data', call'.args[1])
                        = {[name |-> call'.args[1], phones |-> <<call'.args[2]>>]}]_vars

\* C7 witness: add of a name that is no key failed on the phone
C7_Witness ==
    /\ call.op = "add_contact"
    /\ Len(call.args) = 2
    /\ out = MsgErrPrefix \o MsgInvalidPhone
    /\ Stored(data, call.args[1]) = {}
    /\ data # <<>>

C9_RemoveAbsent ==
    [][(call'.op = "remove_phone" /\ ~Occurs(PhonesOf(data, call'.args[1]), call'.args[2]))
        => /\ exc' = ValueError(MsgPhoneNotFound)
           /\ data' = data]_vars

\* C9 witness: remove_phone raised the not-found error on a Record that holds phones
C9_Witness ==
    /\ call.op = "remove_phone"
    /\ exc = ValueError(MsgPhoneNotFound)
    /\ Len(PhonesOf(data, call.args[1])) = MaxPhones

\* C10: delete of a name that is no key raises the not-found error and
\* leaves the directory unchanged; delete of a key removes that entry alone,
\* every other entry staying as it was, and the name is no longer found.
C10_Delete ==
    [][(call'.op = "delete")
        => LET name == call'.args[1] IN
           /\ Stored(data, name) = {}
                => /\ exc' = ValueError(MsgRecordNotFound)
                   /\ data' = data
           /\ Stored(data, name) # {}
                => /\ exc' = NoExc
                   /\ Stored(data', name) = {}
                   /\ Len(data') = Len(data) - 1
                   /\ \A i \in 1..Len(data) :
                        data[i].key # name => Stored(data', data[i].key) = {data[i].rec}]_vars

\* C10 witness: delete removed one of two entries and the other one, which
\* was added after it, is still there
C10_Witness ==
    /\ call.op = "delete"
    /\ exc = NoExc
    /\ Len(data) = 1
    /\ data[1].rec.phones # <<>>
    /\ data[1].key # NameJo
    /\ call.args[1] = NameJo

\* C11: add_record of a Record that was built never fails; afterwards the
\* Record stored under its name is that Record (one stored there before is
\* replaced), the directory is one entry longer exactly when the name was no
\* key, and the entries under the other keys are as they were.
C11_AddRecord ==
    [][(call'.op = "add_record")
        => LET name == Head(call'.args)
               phones == Tail(call'.args)
               built == name # <<>> /\ \A i \in 1..Len(phones) : PhoneCreate(phones[i]).exc = NoExc
           IN /\ built <=> exc' = NoExc
              /\ ~built => data' = data
              /\ built
                    => /\ Stored(data', name) = {[name |-> name, phones |-> phones]}
                       /\ Len(data') = Len(data) + (IF Stored(data, name) = {} THEN 1 ELSE 0)
                       /\ \A i \in 1..Len(data) :
                            data[i].key # name
                                => Stored(data', data[i].key) = {data[i].rec}]_vars

\* C11 witness: add_record stored an empty Record under a name that is not
\* the newest key, so it replaced the Record that was there
C11_Witness ==
    /\ call = Call("add_record", <<NameJo>>)
    /\ exc = NoExc
    /\ Len(data) = 2
    /\ data[1] = [key |-> NameJo, rec |-> [name |-> NameJo, phones |-> <<>>]]
    /\ data[2].rec.phones # <<>>

\* C12: phone and change on a name that is no key answer the
\* contact-not-found error and leave the directory as it was.
C12_NotFound ==
    [][(/\ \/ call'.op = "show_phone" /\ Len(call'.args) = 1
           \/ call'.op = "change_contact" /\ Len(call'.args) = 2
        /\ Stored(data, call'.args[1]) = {})
        => /\ out' = MsgErrContactNotFound
           /\ exc' = NoExc
           /\ data' = data]_vars

\* C12 witness: change was called on a name that is no key of a directory
\* that holds another contact
C12_Witness ==
    /\ call.op = "change_contact"
    /\ Len(call.args) = 2
    /\ out = MsgErrContactNotFound
    /\ Stored(data, call.args[1]) = {}
    /\ data # <<>>

\* C13: every Record has the non-empty name it was built with (the key it is
\* stored under) and every phone of its list is exactly 10 decimal digits.
C13_RecordValid ==
    \A i \in 1..Len(data) :
        /\ data[i].rec.name # <<>>
        /\ data[i].rec.name = data[i].key
        /\ \A j \in 1..Len(data[i].rec.phones) : TenDecimalDigits(data[i].rec.phones[j])

\* C14: add_phone of a phone that passes validation appends it at the end
\* of the list, also when the list holds it already; remove_phone of a phone
\* the list holds takes out the first element equal to it and nothing else
\* (later duplicates and the order of the rest stay, the list is one shorter).
C14_AppendAndRemoveFirst ==
    [][LET name == call'.args[1]
           p == call'.args[2]
           before == PhonesOf(data, name)
           after == PhonesOf(data', name)
       IN /\ (call'.op = "add_phone" /\ PhoneCreate(p).exc = NoExc)
                => /\ exc' = NoExc
                   /\ after = Append(before, p)
          /\ (call'.op = "remove_phone" /\ Occurs(before, p))
                => /\ exc' = NoExc
                   /\ after = WithoutFirst(before, p)
                   /\ Len(after) = Len(before) - 1]_vars

\* C14 witness: remove_phone took the first P1 out of a list that holds P1
\* again after P2
C14_Witness ==
    /\ call = Call("remove_phone", <<NameJo, P1>>)
    /\ exc = NoExc
    /\ PhonesOf(data, NameJo) = <<P2, P1>>

\* C15: a line whose command word is phone, all, hello, help or no known
\* word leaves the directory as it was; for a word that is not known the
\* guidance message is printed and the loop goes on.
C15_ReadOnlyCommands ==
    [][(call'.op = "input" /\ split(call'.args[1]) # <<>>)
        => LET w == CommandWord(call'.args[1]) IN
           /\ (w \in {CmdPhone, CmdAll, CmdHello, CmdHelp} \/ w \notin KnownWords)
                => data' = data
           /\ w \notin KnownWords
                => /\ out' = MsgInvalidCommand
                   /\ exc' = NoExc
                   /\ pc' = "running"]_vars

\* C15 witness: an unknown word was typed while the directory held a
\* contact, and the loop is at the next prompt
C15_Witness ==
    /\ call = Call("input", <<Line1(<<"x","y","z">>)>>)
    /\ out = MsgInvalidCommand
    /\ pc = "running"
    /\ data # <<>>

\* C16: through the commands alone every Record holds at most one phone.
C16_AtMostOnePhone == \A i \in 1..Len(data) : Len(data[i].rec.phones) <= 1

\* C16 witness: a change with a phone that fails validation left the contact
\* without a phone, beside a contact that holds one
C16_Witness ==
    /\ call = Call("input", <<Line3(CmdChange, NameJo, PSep)>>)
    /\ Stored(data, NameJo) # {}
    /\ PhonesOf(data, NameJo) = <<>>
    /\ Stored(data, NameAl) # {}
    /\ Len(PhonesOf(data, NameAl)) = 1

\* C17: a contact without phones stays in the directory without phones
\* whatever line is typed next; a change of it, with whatever phone, prints
\* "Error: Invalid command format." and an add of it is rejected as already
\* existing.
C17_EmptyForever ==
    [][\A i \in 1..Len(data) :
        data[i].rec.phones = <<>>
            => /\ Stored(data', data[i].key) = {data[i].rec}
               /\ \A q \in CmdPhones :
                    /\ call' = Call("input", <<Line3(CmdChange, data[i].key, q)>>)
                            => out' = MsgErrInvalidFormat
                    /\ call' = Call("input", <<Line3(CmdAdd, data[i].key, q)>>)
                            => Contains(out', TxtAlreadyExists)]_vars

\* C17 witness: a change with a valid phone was refused on a contact without phones
C17_Witness ==
    /\ call = Call("input", <<Line3(CmdChange, NameJo, P1)>>)
    /\ out = MsgErrInvalidFormat
    /\ Stored(data, NameJo) # {}
    /\ PhonesOf(data, NameJo) = <<>>

=============================================================================
